---- MODULE Spec2Model ----
(***************************************************************************)
(* A model of flash-mcu.py: one invocation of the command-line program,    *)
(* from the parsed arguments to the process exit.                          *)
(*                                                                         *)
(* Strings are sequences of one-character strings, so that lower(),        *)
(* startswith(), endswith(), slicing and shlex quoting are computed the    *)
(* way the code computes them.  A printed message is kept as its format    *)
(* string and the values formatted into it.                                *)
(***************************************************************************)
EXTENDS Integers, Sequences, FiniteSets, TLC

VARIABLES
    args,                 \* the Args dataclass built by parse_args
    pc,                   \* the position of the single thread of control
    calls,                \* the functions entered so far, in order
    probed,               \* the Path.exists() probes made so far, with their answers
    stdout,               \* the lines printed so far
    procs,                \* the subprocess.run calls made so far, with their outcome
    exit_status,          \* the process exit status (meaningful when pc = "exited")
    openocd_bin,          \* flash_stm32: first element of detect_openocd_path()
    openocd_root,         \* flash_stm32: second element of detect_openocd_path()
    detected_mcu_series,  \* flash_stm32: the family selected by the loop
    esptool_cmd,          \* flash_esp32: the result of detect_esptool_path()
    cmd                   \* the argument vector built by flash_stm32 / flash_esp32

vars ==
    << args, pc, calls, probed, stdout, procs, exit_status, openocd_bin,
       openocd_root, detected_mcu_series, esptool_cmd, cmd >>

-----------------------------------------------------------------------------
(* Bounds of the model. *)

\* longest suffix appended to a base MCU name
MaxSuffixLen ==
    1

\* largest exit status a child process returns
MaxStatus ==
    2

-----------------------------------------------------------------------------
(* Characters and strings. *)

UpperLetters ==
    <<"A","B","C","D","E","F","G","H","I","J","K","L","M",
      "N","O","P","Q","R","S","T","U","V","W","X","Y","Z">>

LowerLetters ==
    <<"a","b","c","d","e","f","g","h","i","j","k","l","m",
      "n","o","p","q","r","s","t","u","v","w","x","y","z">>

Digits ==
    <<"0","1","2","3","4","5","6","7","8","9">>

Range(s) ==
    { s[i] : i \in DOMAIN s }

\* str.lower() on one character
LowerChar(c) ==
    IF c \in Range(UpperLetters)
    THEN LowerLetters[CHOOSE i \in DOMAIN UpperLetters : UpperLetters[i] = c]
    ELSE c

\* str.upper() on one character (used to draw the inputs only)
UpperChar(c) ==
    IF c \in Range(LowerLetters)
    THEN UpperLetters[CHOOSE i \in DOMAIN LowerLetters : LowerLetters[i] = c]
    ELSE c

lower(s) ==
    [ i \in 1..Len(s) |-> LowerChar(s[i]) ]

upper(s) ==
    [ i \in 1..Len(s) |-> UpperChar(s[i]) ]

startswith(s, p) ==
    Len(p) <= Len(s) /\ SubSeq(s, 1, Len(p)) = p

endswith(s, p) ==
    Len(p) <= Len(s) /\ SubSeq(s, Len(s) - Len(p) + 1, Len(s)) = p

\* Optional[str]: None is the empty tuple, a given value v is <<v>>
None ==
    <<>>

Some(v) ==
    <<v>>

-----------------------------------------------------------------------------
(* The string literals of the source. *)

\* "stm32"  (line 186)
S_stm32 ==
    <<"s","t","m","3","2">>

\* "esp32"  (line 189)
S_esp32 ==
    <<"e","s","p","3","2">>

\* ".bin"  (line 115)
S_bin_ext ==
    <<".","b","i","n">>

\* ".elf"  (line 130)
S_elf_ext ==
    <<".","e","l","f">>

\* ".hex"  (line 130)
S_hex_ext ==
    <<".","h","e","x">>

\* "0x8000000"  (line 77)
S_default_start ==
    <<"0","x","8","0","0","0","0","0","0">>

\* "cmsis-dap"  (line 82)
S_default_tool ==
    <<"c","m","s","i","s","-","d","a","p">>

\* "-f"  (line 118)
S_f ==
    <<"-","f">>

\* "-c"  (line 122)
S_c ==
    <<"-","c">>

\* "scripts"  (line 119)
S_scripts ==
    <<"s","c","r","i","p","t","s">>

\* "interface"  (line 119)
S_interface ==
    <<"i","n","t","e","r","f","a","c","e">>

\* "target"  (line 121)
S_target ==
    <<"t","a","r","g","e","t">>

\* ".cfg"  (line 119)
S_cfg ==
    <<".","c","f","g">>

\* "program "  (line 123)
S_program ==
    <<"p","r","o","g","r","a","m"," ">>

\* " exit "  (line 123)
S_exit ==
    <<" ","e","x","i","t"," ">>

\* " verify reset exit"  (line 138)
S_verify_reset_exit ==
    <<" ","v","e","r","i","f","y"," ","r","e","s","e","t"," ","e","x","i","t">>

\* "/usr/local/bin/openocd"  (line 58)
S_usr_local_bin_openocd ==
    <<"/","u","s","r","/","l","o","c","a","l","/","b","i","n","/","o","p","e","n","o","c","d">>

\* "/usr/local/share/openocd"  (line 59)
S_usr_local_share_openocd ==
    <<"/","u","s","r","/","l","o","c","a","l","/","s","h","a","r","e","/","o","p","e","n","o","c","d">>

\* "~"  (line 40)
S_tilde ==
    <<"~">>

\* ".platformiopackages"  (line 40)
S_platformiopackages ==
    <<".","p","l","a","t","f","o","r","m","i","o","p","a","c","k","a","g","e","s">>

\* "tool-openocd"  (line 64)
S_tool_openocd ==
    <<"t","o","o","l","-","o","p","e","n","o","c","d">>

\* "bin"  (line 48)
S_bin ==
    <<"b","i","n">>

\* "openocd"  (line 65)
S_openocd ==
    <<"o","p","e","n","o","c","d">>

\* "~/.platformio/packages/tool-esptoolpy"  (line 150)
S_esptoolpy_pkg ==
    <<"~","/",".","p","l","a","t","f","o","r","m","i","o","/","p","a","c","k","a","g","e","s","/","t","o","o","l","-","e","s","p","t","o","o","l","p","y">>

\* "~/.platformio/penv/bin/python"  (line 151)
S_penv_python ==
    <<"~","/",".","p","l","a","t","f","o","r","m","i","o","/","p","e","n","v","/","b","i","n","/","p","y","t","h","o","n">>

\* "~/.platformio/packages/tool-esptoolpy/esptool.py"  (line 153)
S_esptoolpy_script ==
    <<"~","/",".","p","l","a","t","f","o","r","m","i","o","/","p","a","c","k","a","g","e","s","/","t","o","o","l","-","e","s","p","t","o","o","l","p","y","/","e","s","p","t","o","o","l",".","p","y">>

\* "which"  (line 23)
S_which ==
    <<"w","h","i","c","h">>

\* "esptool.py"  (line 156)
S_esptool_py ==
    <<"e","s","p","t","o","o","l",".","p","y">>

\* "--chip="  (line 168)
S_chip ==
    <<"-","-","c","h","i","p","=">>

\* "--port="  (line 169)
S_port ==
    <<"-","-","p","o","r","t","=">>

\* "write_flash"  (line 170)
S_write_flash ==
    <<"w","r","i","t","e","_","f","l","a","s","h">>

\* "--flash_size=detect"  (line 172)
S_flash_size ==
    <<"-","-","f","l","a","s","h","_","s","i","z","e","=","d","e","t","e","c","t">>

\* "0"  (line 173)
S_zero ==
    <<"0">>

\* "None"  (line 169)
S_None ==
    <<"N","o","n","e">>

\* the family list of flash_stm32, in the order of the source
mcu_series ==
    << <<"s","t","m","8","s","0","0","3">>,
       <<"s","t","m","8","s","1","0","3">>,
       <<"s","t","m","8","s","1","0","5">>,
       <<"s","t","m","3","2","c","0","x">>,
       <<"s","t","m","3","2","f","0","x">>,
       <<"s","t","m","3","2","f","1","x">>,
       <<"s","t","m","3","2","f","2","x">>,
       <<"s","t","m","3","2","f","3","x">>,
       <<"s","t","m","3","2","f","4","x">>,
       <<"s","t","m","3","2","f","7","x">>,
       <<"s","t","m","3","2","g","0","x">>,
       <<"s","t","m","3","2","g","4","x">>,
       <<"s","t","m","3","2","h","7","x">> >>

-----------------------------------------------------------------------------
(* Paths.  A Path is kept as its text; joinpath appends "/"-separated      *)
(* parts and expanduser replaces a leading "~" by the home directory.      *)

\* the home directory "~" expands to
Home ==
    <<"/","h","o","m","e","/","u","s","e","r">>

RECURSIVE joinpath(_, _)
joinpath(p, parts) ==
    IF parts = <<>> THEN p
    ELSE joinpath(p \o <<"/">> \o Head(parts), Tail(parts))

expanduser(p) ==
    IF p = S_tilde \/ startswith(p, S_tilde \o <<"/">>) THEN Home \o Tail(p) ELSE p

\* the outcome of a call that may raise NotFoundException
Ok(v) ==
    [ ok |-> TRUE, value |-> v, fmt |-> "", fargs |-> <<>> ]

NotFoundException(f, a) ==
    [ ok |-> FALSE, value |-> <<>>, fmt |-> f, fargs |-> a ]

\* the paths whose existence the toolchain resolution asks the filesystem for
PackagePath(package) ==
    expanduser(joinpath(S_tilde, <<S_platformiopackages, package>>))

PackageBinPath(package, executable) ==
    joinpath(PackagePath(package), <<S_bin, executable>>)

\* fs maps a path to the answer of Path(...).exists()
get_platformio_package_path(fs, package) ==
    LET package_path == PackagePath(package)
    IN  IF ~fs[package_path]
        THEN NotFoundException("platform package {package} not found", <<package>>)
        ELSE Ok(package_path)

get_platformio_package_bin_path(fs, package, executable) ==
    LET package_path == get_platformio_package_path(fs, package)
    IN  IF ~package_path.ok THEN package_path
        ELSE LET bin_path == joinpath(package_path.value, <<S_bin, executable>>)
             IN  IF ~fs[bin_path]
                 THEN NotFoundException(
                          "PlatformIO package {package} does not have {executable}",
                          <<package, executable>>)
                 ELSE Ok(bin_path)

\* the pair detect_openocd_path returns, in the order of its return statement
detect_openocd_path(fs) ==
    IF fs[S_usr_local_bin_openocd] /\ fs[S_usr_local_share_openocd]
    THEN Ok(<<S_usr_local_bin_openocd, S_usr_local_share_openocd>>)
    ELSE LET first  == get_platformio_package_path(fs, S_tool_openocd)
             second == get_platformio_package_bin_path(fs, S_tool_openocd, S_openocd)
         IN  IF ~first.ok THEN first
             ELSE IF ~second.ok THEN second
             ELSE Ok(<<first.value, second.value>>)

\* the exists() probes detect_openocd_path makes (`and` short-circuits)
OpenocdProbes(fs) ==
    LET b   == S_usr_local_bin_openocd
        s   == S_usr_local_share_openocd
        pkg == PackagePath(S_tool_openocd)
        pb  == PackageBinPath(S_tool_openocd, S_openocd)
    IN  {b}
        \cup (IF fs[b] THEN {s} ELSE {})
        \cup (IF fs[b] /\ fs[s] THEN {}
              ELSE {pkg} \cup (IF fs[pkg] THEN {pb} ELSE {}))

OpenocdPaths ==
    { S_usr_local_bin_openocd, S_usr_local_share_openocd,
      PackagePath(S_tool_openocd), PackageBinPath(S_tool_openocd, S_openocd) }

-----------------------------------------------------------------------------
(* shlex.join, as print_cmd and flash_stm32 use it to print a command. *)

SafeChars ==
    Range(UpperLetters) \cup Range(LowerLetters) \cup Range(Digits)
    \cup {"_", "@", "%", "+", "=", ":", ",", ".", "/", "-"}

\* s.replace("'", "'\"'\"'")
RECURSIVE EscapeQuotes(_)
EscapeQuotes(s) ==
    IF Len(s) = 0 THEN <<>>
    ELSE IF Len(s) = 1
    THEN (IF s[1] = "'" THEN <<"'", "\"", "'", "\"", "'">> ELSE s)
    ELSE LET h == Len(s) \div 2
         IN  EscapeQuotes(SubSeq(s, 1, h)) \o EscapeQuotes(SubSeq(s, h + 1, Len(s)))

shlex_quote(s) ==
    IF s = <<>> THEN <<"'", "'">>
    ELSE IF \A i \in 1..Len(s) : s[i] \in SafeChars THEN s
    ELSE <<"'">> \o EscapeQuotes(s) \o <<"'">>

RECURSIVE shlex_join(_)
shlex_join(c) ==
    IF c = <<>> THEN <<>>
    ELSE IF Len(c) = 1 THEN shlex_quote(c[1])
    ELSE shlex_quote(Head(c)) \o <<" ">> \o shlex_join(Tail(c))

\* the line print_cmd(c) writes
print_cmd(c) ==
    shlex_join(c)

-----------------------------------------------------------------------------
(* flash_stm32: defaults, the family classifier and the command. *)

StartAddress_default_only(a) ==
    S_default_start

\* `if args.start:` is false for None and for the empty string
StartAddress(a) ==
    IF a.start # None /\ a.start[1] # <<>> THEN a.start[1] ELSE S_default_start

\* `if args.tool:` likewise
Tool(a) ==
    IF a.tool # None /\ a.tool[1] # <<>> THEN a.tool[1] ELSE S_default_tool

series_start_keep_x(series) ==
    series

series_start(series) ==
    IF endswith(series, <<"x">>) THEN SubSeq(series, 1, Len(series) - 1) ELSE series

\* the for loop over mcu_series from entry i on; "" when nothing matches
RECURSIVE detect_from(_, _)
detect_from(mcu, i) ==
    IF i > Len(mcu_series) THEN <<>>
    ELSE IF startswith(mcu, series_start(mcu_series[i])) THEN mcu_series[i]
    ELSE detect_from(mcu, i + 1)

detect_mcu_series(a) ==
    detect_from(lower(a.mcu), 1)

IsBin(a) ==
    endswith(a.firmware_path, S_bin_ext)

IsElfOrHex(a) ==
    endswith(a.firmware_path, S_elf_ext) \/ endswith(a.firmware_path, S_hex_ext)

ProgramBin(a) ==
    S_program \o a.firmware_path \o S_exit \o StartAddress(a)

ProgramElfHex(a) ==
    S_program \o a.firmware_path \o S_verify_reset_exit

\* the argument vector of either branch; program is its last element
stm32_cmd(a, bin, root, series, program) ==
    << bin,
       S_f, joinpath(root, <<S_scripts, S_interface, Tool(a) \o S_cfg>>),
       S_f, joinpath(root, <<S_scripts, S_target, series \o S_cfg>>),
       S_c, program >>

-----------------------------------------------------------------------------
(* flash_esp32: the esptool resolution and the command. *)

EsptoolPackage ==
    expanduser(S_esptoolpy_pkg)

\* the answers `which esptool.py` may give: a return code and its stdout
WhichAnswers ==
    { [ returncode |-> 1, out |-> <<>> ],
      [ returncode |-> 0, out |-> <<"/","u","s","r","/","b","i","n","/","e","s","p","t","o","o","l",".","p","y","\n">> ],
      [ returncode |-> 0, out |-> <<"/","o","p","t","/","e","s","p"," ","t","o","o","l","s","/","e","s","p","t","o","o","l",".","p","y","\n">> ] }

\* str.strip()
RECURSIVE lstrip(_)
lstrip(s) ==
    IF s # <<>> /\ Head(s) \in {" ", "\n", "\t"} THEN lstrip(Tail(s)) ELSE s

RECURSIVE rstrip(_)
rstrip(s) ==
    IF s # <<>> /\ s[Len(s)] \in {" ", "\n", "\t"}
    THEN rstrip(SubSeq(s, 1, Len(s) - 1)) ELSE s

strip(s) ==
    rstrip(lstrip(s))

which(exe, p) ==
    IF p.returncode = 0 THEN Ok(strip(p.out))
    ELSE NotFoundException("cannot found {exe}", <<exe>>)

UsesWhich(fs) ==
    ~fs[EsptoolPackage]

detect_esptool_path(fs, p) ==
    IF fs[EsptoolPackage]
    THEN Ok(<<expanduser(S_penv_python), expanduser(S_esptoolpy_script)>>)
    ELSE LET tool_path == which(S_esptool_py, p)
         IN  IF ~tool_path.ok THEN tool_path ELSE Ok(<<tool_path.value>>)

\* an Optional[str] inside an f-string
Format(opt) ==
    IF opt = None THEN S_None ELSE opt[1]

esp32_cmd(a, tool) ==
    tool \o << S_chip \o a.mcu, S_port \o Format(a.port), S_write_flash,
               S_flash_size, S_zero, a.firmware_path >>

-----------------------------------------------------------------------------
(* The command lines the model draws: parse_args accepts any strings. *)

SuffixChars ==
    {"x"}

RECURSIVE Suffixes(_)
Suffixes(n) ==
    IF n = 0 THEN {<<>>}
    ELSE Suffixes(n - 1)
         \cup { Append(s, c) : s \in { t \in Suffixes(n - 1) : Len(t) = n - 1 },
                                c \in SuffixChars }

\* every entry of the family list, whole and without its last character
McuBases ==
    UNION { {e, SubSeq(e, 1, Len(e) - 1)} : e \in Range(mcu_series) }
    \cup { S_stm32, S_esp32, <<>>,
           <<"s","t","m","8","s">>,
           <<"s","t","m","3","2","l","0">>,
           <<"s","t","m","3","2","f","1","0","3","c","8","t","6">>,
           <<"u","n","k","n","o","w","n","c","h","i","p">> }

McuNames ==
    LET lowered == { b \o s : b \in McuBases, s \in Suffixes(MaxSuffixLen) }
    IN  lowered \cup { upper(n) : n \in lowered }

FirmwarePaths ==
    { <<"a","p","p",".","b","i","n">>,
      <<"a","p","p",".","e","l","f">>,
      <<"i","t","'","s",".","h","e","x">>,
      <<"b","i","n">> }

StartAddresses ==
    { None, Some(<<>>), Some(<<"0","x","0","8","0","0","4","0","0","0">>) }

Tools ==
    { None, Some(<<"s","t","l","i","n","k">>) }

Ports ==
    { None, Some(<<"/","d","e","v","/","t","t","y","A","C","M","0">>) }

Args ==
    [ mcu : McuNames, firmware_path : FirmwarePaths, tool : Tools,
      port : Ports, start : StartAddresses, dryrun : BOOLEAN ]

-----------------------------------------------------------------------------
(* The state machine. *)

\* a printed line: the format string of the print call and its values
Msg(f, a) ==
    [ kind |-> "msg", fmt |-> f, fargs |-> a ]

\* a printed command line
CmdLine(c) ==
    [ kind |-> "cmd", fmt |-> "{}", fargs |-> <<print_cmd(c)>> ]

Init ==
    /\ args \in Args
    /\ pc = "main"
    /\ calls = <<>>
    /\ probed = {}
    /\ stdout = <<>>
    /\ procs = <<>>
    /\ exit_status = 0
    /\ openocd_bin = <<>>
    /\ openocd_root = <<>>
    /\ detected_mcu_series = <<>>
    /\ esptool_cmd = <<>>
    /\ cmd = <<>>

\* sys.exit(status) after printing lines
Exit(lines, status) ==
    /\ stdout' = stdout \o lines
    /\ exit_status' = status
    /\ pc' = "exited"

\* a NotFoundException raised below flash_mcu: main prints it and exits 1
Raise(e) ==
    Exit(<<Msg(e.fmt, e.fargs)>>, 1)

Main_without_exists_check ==
    /\ pc = "main"
    /\ \E exists \in BOOLEAN :
         /\ probed' = probed \cup {<<args.firmware_path, exists>>}
         /\ pc' = "flash_mcu"
         /\ UNCHANGED <<stdout, exit_status>>
    /\ calls' = Append(calls, "main")
    /\ UNCHANGED <<args, procs, openocd_bin, openocd_root,
                   detected_mcu_series, esptool_cmd, cmd>>

\* main up to the call of flash_mcu
Main ==
    /\ pc = "main"
    /\ \E exists \in BOOLEAN :
         /\ probed' = probed \cup {<<args.firmware_path, exists>>}
         /\ IF ~exists
            THEN Exit(<<Msg("firmware {args.firmware_path} does not exist",
                            <<args.firmware_path>>)>>, 1)
            ELSE /\ pc' = "flash_mcu"
                 /\ UNCHANGED <<stdout, exit_status>>
    /\ calls' = Append(calls, "main")
    /\ UNCHANGED <<args, procs, openocd_bin, openocd_root,
                   detected_mcu_series, esptool_cmd, cmd>>

IsStm32_any_stm(mcu) ==
    startswith(mcu, <<"s","t","m">>)

IsStm32(mcu) ==
    startswith(mcu, S_stm32)

IsEsp32(mcu) ==
    startswith(mcu, S_esp32)

\* flash_mcu: the top-level dispatch
FlashMcu ==
    /\ pc = "flash_mcu"
    /\ calls' = Append(calls, "flash_mcu")
    /\ LET mcu == lower(args.mcu)
       IN  IF IsStm32(mcu)
           THEN pc' = "flash_stm32" /\ UNCHANGED <<stdout, exit_status>>
           ELSE IF IsEsp32(mcu)
           THEN pc' = "flash_esp32" /\ UNCHANGED <<stdout, exit_status>>
           ELSE Exit(<<Msg("mcu {mcu} is not supported", <<mcu>>)>>, 1)
    /\ UNCHANGED <<args, probed, procs, openocd_bin, openocd_root,
                   detected_mcu_series, esptool_cmd, cmd>>

\* flash_stm32, its first statement: openocd_bin, openocd_root = detect_openocd_path()
DetectOpenocdPath ==
    /\ pc = "flash_stm32"
    /\ calls' = calls \o <<"flash_stm32", "detect_openocd_path">>
    /\ \E fs \in [OpenocdPaths -> BOOLEAN] :
         LET r == detect_openocd_path(fs)
         IN  /\ probed' = probed \cup { <<p, fs[p]>> : p \in OpenocdProbes(fs) }
             /\ IF r.ok
                THEN /\ openocd_bin' = r.value[1]
                     /\ openocd_root' = r.value[2]
                     /\ pc' = "stm32_build"
                     /\ UNCHANGED <<stdout, exit_status>>
                ELSE /\ Raise(r)
                     /\ UNCHANGED <<openocd_bin, openocd_root>>
    /\ UNCHANGED <<args, procs, detected_mcu_series, esptool_cmd, cmd>>

ShouldExecute_always(a) ==
    TRUE

ShouldExecute_never(a) ==
    FALSE

\* `if not args.dryrun:` before subprocess.run
ShouldExecute(a) ==
    ~a.dryrun

\* a built command is printed, then run unless this is a dry run
PrintAndDispatch(lines, c) ==
    /\ cmd' = c
    /\ stdout' = stdout \o lines \o <<CmdLine(c)>>
    /\ IF ShouldExecute(args)
       THEN pc' = "subprocess_run" /\ UNCHANGED exit_status
       ELSE pc' = "exited" /\ exit_status' = 0

\* flash_stm32 after the toolchain is resolved, up to subprocess.run
FlashStm32 ==
    /\ pc = "stm32_build"
    /\ LET series == detect_mcu_series(args)
           using  == Msg("tool using {tool}", <<Tool(args)>>)
           build(program) ==
               PrintAndDispatch(<<using, Msg("{}", <<series>>)>>,
                                stm32_cmd(args, openocd_bin, openocd_root,
                                          series, program))
       IN  /\ detected_mcu_series' = series
           /\ IF series = <<>>
              THEN /\ Exit(<<using, Msg("cannot support mcu {args.mcu}", <<args.mcu>>)>>, 0)
                   /\ UNCHANGED cmd
              ELSE IF IsBin(args) THEN build(ProgramBin(args))
              ELSE IF IsElfOrHex(args) THEN build(ProgramElfHex(args))
              ELSE /\ Exit(<<using, Msg("{}", <<series>>),
                             Msg("unknown firmware {args.firmware_path}",
                                 <<args.firmware_path>>)>>, 1)
                   /\ UNCHANGED cmd
    /\ UNCHANGED <<args, calls, probed, procs, openocd_bin, openocd_root,
                   esptool_cmd>>

FlashEsp32_without_port_check ==
    /\ pc = "flash_esp32"
    /\ calls' = Append(calls, "flash_esp32")
    /\ IF args.port = None
       THEN /\ pc' = "detect_esptool_path"
            /\ UNCHANGED <<probed, stdout, exit_status>>
       ELSE \E exists \in BOOLEAN :
              /\ probed' = probed \cup {<<args.port[1], exists>>}
              /\ IF ~exists
                 THEN Raise(NotFoundException("port {args.port} does not found",
                                              <<args.port[1]>>))
                 ELSE pc' = "detect_esptool_path"
                      /\ UNCHANGED <<stdout, exit_status>>
    /\ UNCHANGED <<args, procs, openocd_bin, openocd_root,
                   detected_mcu_series, esptool_cmd, cmd>>

\* flash_esp32, the two checks of the port
FlashEsp32 ==
    /\ pc = "flash_esp32"
    /\ calls' = Append(calls, "flash_esp32")
    /\ IF args.port = None
       THEN /\ Exit(<<Msg("need port: --port /dev/ttyACM0", <<>>)>>, 1)
            /\ UNCHANGED probed
       ELSE \E exists \in BOOLEAN :
              /\ probed' = probed \cup {<<args.port[1], exists>>}
              /\ IF ~exists
                 THEN Raise(NotFoundException("port {args.port} does not found",
                                              <<args.port[1]>>))
                 ELSE pc' = "detect_esptool_path"
                      /\ UNCHANGED <<stdout, exit_status>>
    /\ UNCHANGED <<args, procs, openocd_bin, openocd_root,
                   detected_mcu_series, esptool_cmd, cmd>>

\* a finished subprocess.run call
Proc(argv, raised, returncode) ==
    [ argv |-> argv, raised |-> raised, returncode |-> returncode ]

\* flash_esp32: esptool_cmd = detect_esptool_path(), which may run `which`
DetectEsptoolPath ==
    /\ pc = "detect_esptool_path"
    /\ \E fs \in [{EsptoolPackage} -> BOOLEAN], p \in WhichAnswers :
         LET r == detect_esptool_path(fs, p)
         IN  /\ probed' = probed \cup {<<EsptoolPackage, fs[EsptoolPackage]>>}
             /\ calls' = calls \o <<"detect_esptool_path">>
                         \o (IF UsesWhich(fs) THEN <<"which">> ELSE <<>>)
             /\ procs' = IF UsesWhich(fs)
                         THEN Append(procs, Proc(<<S_which, S_esptool_py>>,
                                                 "", p.returncode))
                         ELSE procs
             /\ IF r.ok
                THEN /\ esptool_cmd' = r.value
                     /\ pc' = "esp32_build"
                     /\ UNCHANGED <<stdout, exit_status>>
                ELSE /\ Raise(r)
                     /\ UNCHANGED esptool_cmd
    /\ UNCHANGED <<args, openocd_bin, openocd_root, detected_mcu_series, cmd>>

\* flash_esp32: the command is built and printed
FlashEsp32Build ==
    /\ pc = "esp32_build"
    /\ PrintAndDispatch(<<>>, esp32_cmd(args, esptool_cmd))
    /\ UNCHANGED <<args, calls, probed, procs, openocd_bin, openocd_root,
                   detected_mcu_series, esptool_cmd>>

ExitAfterRun_unchecked(returncode) ==
    0

\* check=True raises CalledProcessError on a nonzero return code; nothing
\* catches it, so the interpreter prints a traceback and exits with status 1
ExitAfterRun(returncode) ==
    IF returncode = 0 THEN 0 ELSE 1

\* exec of a directory fails: the package path of the fallback contains bin/
CannotExec(c) ==
    c[1] = PackagePath(S_tool_openocd)

\* subprocess.run(cmd, check=True): the parent waits for the child
SubprocessRun ==
    /\ pc = "subprocess_run"
    /\ \/ /\ ~CannotExec(cmd)
          /\ \E returncode \in 0..MaxStatus :
               /\ procs' = Append(procs, Proc(cmd, "", returncode))
               /\ exit_status' = ExitAfterRun(returncode)
       \/ /\ procs' = Append(procs, Proc(cmd, "OSError", 0))
          /\ exit_status' = 1
    /\ pc' = "exited"
    /\ UNCHANGED <<args, calls, probed, stdout, openocd_bin, openocd_root,
                   detected_mcu_series, esptool_cmd, cmd>>

Next ==
    \/ Main
    \/ FlashMcu
    \/ DetectOpenocdPath
    \/ FlashStm32
    \/ FlashEsp32
    \/ DetectEsptoolPath
    \/ FlashEsp32Build
    \/ SubprocessRun

Spec ==
    Init /\ [][Next]_vars


-----------------------------------------------------------------------------
(* Vocabulary of the properties. *)

Exited ==
    pc = "exited"

Entered(f) ==
    \E i \in DOMAIN calls : calls[i] = f

FirmwareMissing ==
    <<args.firmware_path, FALSE>> \in probed

FirmwareExists ==
    <<args.firmware_path, TRUE>> \in probed

\* a command line has been printed
CmdPrinted ==
    \E i \in DOMAIN stdout : stdout[i].kind = "cmd"

Printed(line) ==
    \E i \in DOMAIN stdout : stdout[i] = line

\* a toolchain resolution has been attempted
ToolchainResolution ==
    \/ Entered("detect_openocd_path")
    \/ Entered("detect_esptool_path")
    \/ Entered("which")
    \/ \E p \in probed : p[1] \in OpenocdPaths \cup {EsptoolPackage}

WhichArgv ==
    <<S_which, S_esptool_py>>

\* the subprocess.run calls that ran the flashing tool, and those that ran which
FlashingProcs ==
    { i \in DOMAIN procs : procs[i].argv # WhichArgv }

WhichProcs ==
    { i \in DOMAIN procs : procs[i].argv = WhichArgv }

\* flash_stm32 has run its classifier loop
ClassifierRan ==
    /\ Entered("flash_stm32")
    /\ openocd_bin # <<>>
    /\ pc \in {"subprocess_run", "exited"}

\* an entry of the family list without its trailing x
FamilyPrefix(e) ==
    IF e[Len(e)] = "x" THEN [ i \in 1..(Len(e) - 1) |-> e[i] ] ELSE e

\* the entries whose prefix the lowercased name begins with
Matching(name) ==
    { i \in DOMAIN mcu_series :
        LET p == FamilyPrefix(mcu_series[i])
        IN  /\ Len(p) <= Len(name)
            /\ \A k \in 1..Len(p) : LowerChar(name[k]) = p[k] }

FirstMatching(name) ==
    mcu_series[CHOOSE i \in Matching(name) : \A j \in Matching(name) : i <= j]

Stm8sEntries ==
    { mcu_series[i] : i \in { j \in DOMAIN mcu_series :
                                SubSeq(mcu_series[j], 1, 5) = <<"s","t","m","8","s">> } }

\* the argument vector this invocation would execute without --dryrun, given
\* the toolchain it resolved
WouldExecute ==
    LET a == [args EXCEPT !.dryrun = FALSE]
    IN  IF Entered("flash_stm32")
        THEN stm32_cmd(a, openocd_bin, openocd_root, detect_mcu_series(a),
                       IF IsBin(a) THEN ProgramBin(a) ELSE ProgramElfHex(a))
        ELSE esp32_cmd(a, esptool_cmd)

-----------------------------------------------------------------------------
(* The claims. *)

\* C1: when the firmware path does not exist, main has exited with status 1
\* without entering flash_mcu: no toolchain resolution was attempted, no
\* command was printed and no subprocess was spawned, whatever the MCU name
\* and the flags are.
C1_MissingFirmwareExitsBeforeDispatch ==
    FirmwareMissing =>
        /\ Exited
        /\ exit_status = 1
        /\ ~Entered("flash_mcu")
        /\ ~ToolchainResolution
        /\ ~CmdPrinted
        /\ procs = <<>>

C1_Witness ==
    /\ FirmwareMissing
    /\ Exited
    /\ ~args.dryrun
    /\ lower(args.mcu) = S_esp32
    /\ args.port # None

\* C2 (as stated): given --dryrun no subprocess at all is spawned, toolchain
\* resolution included, and the printed command is the argument vector the
\* same invocation would execute without --dryrun.
C2_DryRunSpawnsNoSubprocess ==
    args.dryrun =>
        /\ procs = <<>>
        /\ (Exited /\ CmdPrinted =>
               stdout[Len(stdout)].fargs = <<print_cmd(WouldExecute)>>)

\* C2 (amended): given --dryrun the flashing tool is never spawned; the only
\* subprocess a dry run may spawn is one `which esptool.py` lookup; and the
\* printed command is the argument vector the same invocation would execute
\* without --dryrun.
C2_DryRunSpawnsNoFlashingTool ==
    args.dryrun =>
        /\ FlashingProcs = {}
        /\ Len(procs) <= 1
        /\ (Exited /\ CmdPrinted =>
               /\ stdout[Len(stdout)].kind = "cmd"
               /\ stdout[Len(stdout)].fargs = <<print_cmd(WouldExecute)>>)

C2_Witness ==
    /\ args.dryrun
    /\ Exited
    /\ CmdPrinted
    /\ Len(procs) = 1
    /\ exit_status = 0

\* C3: an MCU name that matches no supported family, rejected by flash_mcu or
\* by the classifier of flash_stm32, ends the process with an unsupported
\* message, exit status 1 and no flashing subprocess.
C3_UnsupportedMcuExitsOne ==
    LET name == lower(args.mcu)
        byDispatch   == ~IsStm32(name) /\ ~IsEsp32(name) /\ Entered("flash_mcu")
        byClassifier == IsStm32(name) /\ Matching(name) = {} /\ ClassifierRan
    IN  Exited /\ (byDispatch \/ byClassifier) =>
            /\ exit_status = 1
            /\ \/ Printed(Msg("mcu {mcu} is not supported", <<name>>))
               \/ Printed(Msg("cannot support mcu {args.mcu}", <<args.mcu>>))
            /\ FlashingProcs = {}

\* C4 (as stated): after a run that is not a dry run, the exit status of the
\* program is the exit status of the flashing tool.
C4_ChildStatusIsExitStatus ==
    \A i \in FlashingProcs :
        Exited /\ procs[i].raised = "" => exit_status = procs[i].returncode

\* C4 (amended): when the flashing tool exits with a nonzero status the
\* program ends with exit status 1, whatever that status is; when it exits
\* with 0 the program exits with 0.
C4_ChildFailureExitsOne ==
    \A i \in FlashingProcs :
        Exited /\ procs[i].raised = "" =>
            /\ ~args.dryrun
            /\ procs[i].returncode = 0 => exit_status = 0
            /\ procs[i].returncode # 0 => exit_status = 1

C4_Witness ==
    /\ Exited
    /\ \E i \in FlashingProcs : procs[i].raised = "" /\ procs[i].returncode = 2
    /\ exit_status = 1

\* C5: an invocation dispatched to the ESP32 path without --port exits with
\* status 1; no command is printed, no toolchain resolution is attempted and
\* no subprocess is spawned.
C5_Esp32WithoutPortExitsOne ==
    IsEsp32(lower(args.mcu)) /\ args.port = None =>
        /\ pc \in {"main", "flash_mcu", "flash_esp32", "exited"}
        /\ Exited => exit_status = 1
        /\ ~CmdPrinted
        /\ ~ToolchainResolution
        /\ procs = <<>>

C5_Witness ==
    /\ Entered("flash_esp32")
    /\ args.port = None
    /\ Exited
    /\ exit_status = 1
    /\ Printed(Msg("need port: --port /dev/ttyACM0", <<>>))

C7_Expected(start) ==
    LET path == args.firmware_path
    IN  IF endswith(path, S_bin_ext)
        THEN /\ cmd # <<>>
             /\ cmd[7] = S_program \o path \o S_exit \o start
             /\ Printed(CmdLine(cmd))
        ELSE IF endswith(path, S_elf_ext) \/ endswith(path, S_hex_ext)
        THEN /\ cmd # <<>>
             /\ cmd[7] = S_program \o path \o S_verify_reset_exit
             /\ Printed(CmdLine(cmd))
        ELSE /\ Exited
             /\ exit_status = 1
             /\ cmd = <<>>
             /\ ~CmdPrinted
             /\ procs = <<>>

\* C7 (as stated): on the STM32 path with a supported family the extension
\* alone determines the on-target command; for .bin the start address is
\* --start if given and 0x8000000 otherwise.
C7_ExtensionDeterminesCommand ==
    ClassifierRan /\ detected_mcu_series # <<>> =>
        C7_Expected(IF args.start # None THEN args.start[1] ELSE S_default_start)

\* C7 (amended): the same, with the start address being --start if it is
\* given and not the empty string, and 0x8000000 otherwise.
C7_ExtensionDeterminesCommandNonEmptyStart ==
    ClassifierRan /\ detected_mcu_series # <<>> =>
        C7_Expected(IF args.start # None /\ Len(args.start[1]) > 0
                    THEN args.start[1] ELSE S_default_start)

C7_Witness ==
    /\ ClassifierRan
    /\ detected_mcu_series # <<>>
    /\ endswith(args.firmware_path, S_bin_ext)
    /\ args.start # None
    /\ Len(args.start[1]) > 0
    /\ cmd # <<>>
    /\ endswith(cmd[7], args.start[1])

\* C8: whichever location detect_openocd_path resolves, the first element of
\* the STM32 command is the openocd executable, a path ending in bin/openocd,
\* and the interface and target config files lie under scripts/interface and
\* scripts/target of the data root of the toolchain, not under the executable.
C8_CommandStartsWithOpenocdExecutable ==
    Entered("flash_stm32") /\ cmd # <<>> =>
        /\ endswith(cmd[1], <<"/">> \o S_bin \o <<"/">> \o S_openocd)
        /\ \E root \in {S_usr_local_share_openocd, PackagePath(S_tool_openocd)} :
              /\ startswith(cmd[3], root \o <<"/">> \o S_scripts \o <<"/">>
                                    \o S_interface \o <<"/">>)
              /\ startswith(cmd[5], root \o <<"/">> \o S_scripts \o <<"/">>
                                    \o S_target \o <<"/">>)
        /\ ~startswith(cmd[3], cmd[1])
        /\ ~startswith(cmd[5], cmd[1])

\* C9 (as stated): at most one subprocess is spawned in an invocation, and a
\* run that is not a dry run and reaches execution spawns exactly one, the
\* flashing tool, after the command has been printed.
C9_AtMostOneSubprocess ==
    /\ Len(procs) <= 1
    /\ Exited /\ ~args.dryrun /\ cmd # <<>> =>
          /\ Len(procs) = 1
          /\ procs[1].argv = cmd
          /\ Printed(CmdLine(procs[1].argv))

\* C9 (amended): the flashing tool is spawned at most once in an invocation,
\* and exactly once, after the command has been printed and with the parent
\* ending only after the call returned, in a run that is not a dry run and
\* reaches execution.  The only other subprocess is one `which esptool.py`
\* lookup, made before the command is printed, so at most two are spawned.
C9_AtMostOneFlashingSubprocess ==
    /\ Cardinality(FlashingProcs) <= 1
    /\ Cardinality(WhichProcs) <= 1
    /\ \A i \in FlashingProcs :
          /\ i = Len(procs)
          /\ procs[i].argv = cmd
          /\ Printed(CmdLine(procs[i].argv))
          /\ Exited
    /\ \A i \in WhichProcs :
          /\ i = 1
          /\ Entered("which")
          /\ pc = "esp32_build" => ~CmdPrinted
    /\ pc = "subprocess_run" => FlashingProcs = {} /\ Printed(CmdLine(cmd))
    /\ Exited /\ ~args.dryrun /\ cmd # <<>> => Cardinality(FlashingProcs) = 1
    /\ cmd = <<>> => FlashingProcs = {}

C9_Witness ==
    /\ Exited
    /\ Len(procs) = 2
    /\ procs[1].argv = WhichArgv
    /\ procs[2].argv = cmd
    /\ procs[2].raised = ""

\* C10: no stm8s entry is ever the detected family, and a name starting with
\* stm8s is rejected by flash_mcu as unsupported with exit status 1 before
\* any toolchain resolution or classification.
C10_Stm8sNeverSelected ==
    /\ detected_mcu_series \notin Stm8sEntries
    /\ startswith(lower(args.mcu), <<"s","t","m","8","s">>) =>
          /\ pc \in {"main", "flash_mcu", "exited"}
          /\ ~Entered("flash_stm32")
          /\ ~ToolchainResolution
          /\ Exited => exit_status = 1
          /\ Exited /\ FirmwareExists =>
                stdout = <<Msg("mcu {mcu} is not supported", <<lower(args.mcu)>>)>>

C10_Witness ==
    /\ Exited
    /\ Entered("flash_mcu")
    /\ lower(args.mcu) = <<"s","t","m","8","s","0","0","3">>
    /\ args.mcu # lower(args.mcu)
    /\ exit_status = 1

====
